---- MODULE Spec2Model ----
(***************************************************************************)
(* Model of tiktoken_local.py: the GPT3Tokenizer class (vocabulary, merge  *)
(* ranks, byte/symbol map, merge cache) with its bpe, encode and           *)
(* count_tokens methods.                                                   *)
(*                                                                         *)
(* A character is its Unicode code point (a natural number); a Python str  *)
(* is a sequence of code points; a Python dict is a function.              *)
(***************************************************************************)
EXTENDS Integers, Sequences, FiniteSets, TLC

VARIABLES encoder, decoder, bpe_ranks, byte_encoder, byte_decoder, cache, ret

vars == <<encoder, decoder, bpe_ranks, byte_encoder, byte_decoder, cache, ret>>

-----------------------------------------------------------------------------
(* Python helpers *)

\* list(range(a, b + 1)) as a sequence
RangeSeq(a, b) == [i \in 1..(b - a + 1) |-> a + i - 1]

Elems(s) == {s[i] : i \in 1..Len(s)}

\* s[i:] with i a zero-based Python index
Drop(s, i) == SubSeq(s, i + 1, Len(s))

\* s[:n]
Take(s, n) == SubSeq(s, 1, IF n < Len(s) THEN n ELSE Len(s))

RECURSIVE Concat(_)
\* "".join(parts)
Concat(parts) ==
    IF parts = <<>> THEN <<>> ELSE Head(parts) \o Concat(Tail(parts))

\* dict(items) for a sequence of <<key, value>> pairs: a later pair wins
DictOf(items) ==
    [k \in {items[i][1] : i \in 1..Len(items)} |->
        LET last == CHOOSE i \in 1..Len(items) :
                        /\ items[i][1] = k
                        /\ \A j \in (i + 1)..Len(items) : items[j][1] # k
        IN  items[last][2]]

\* {v: k for k, v in d.items()} where d was filled in the order of items
InverseDictOf(items) ==
    DictOf([i \in 1..Len(items) |-> <<items[i][2], items[i][1]>>])

-----------------------------------------------------------------------------
(* bytes_to_unicode *)

\* ord("!")..ord("~"), ord("¡")..ord("¬"), ord("®")..ord("ÿ")
PrintableBytes == RangeSeq(33, 126) \o RangeSeq(161, 172) \o RangeSeq(174, 255)

\* one pass of the loop body with cs.append(2**8 + b) in place of 2**8 + n
bytes_to_unicode_wrong_step(b, st) ==
    IF b \notin Elems(st.bs)
    THEN [bs |-> Append(st.bs, b), cs |-> Append(st.cs, 256 + b), n |-> st.n + 1]
    ELSE st

\* if b not in bs: bs.append(b); cs.append(2**8 + n); n += 1
bytes_to_unicode_step(b, st) ==
    IF b \notin Elems(st.bs)
    THEN [bs |-> Append(st.bs, b), cs |-> Append(st.cs, 256 + st.n), n |-> st.n + 1]
    ELSE st

RECURSIVE bytes_to_unicode_loop(_, _, _)
\* for b in range(lo, hi): the passes run in ascending order of b; the range
\* is split in halves, the first half evaluated before the second starts, to
\* keep the evaluation shallow
bytes_to_unicode_loop(lo, hi, st) ==
    IF hi <= lo THEN st
    ELSE IF hi = lo + 1 THEN bytes_to_unicode_step(lo, st)
    ELSE LET mid  == (lo + hi) \div 2
             left == bytes_to_unicode_loop(lo, mid, st)
         IN  IF left.n >= 0 THEN bytes_to_unicode_loop(mid, hi, left) ELSE left

\* the (b, chr) pairs zip(bs, cs) after "for b in range(2**8)"; chr(n) is
\* the code point n itself
bytes_to_unicode_items ==
    LET r == bytes_to_unicode_loop(0, 256,
                 [bs |-> PrintableBytes, cs |-> PrintableBytes, n |-> 0])
    IN  [i \in 1..Len(r.bs) |-> <<r.bs[i], r.cs[i]>>]

\* dict(zip(bs, cs))
bytes_to_unicode == DictOf(bytes_to_unicode_items)

-----------------------------------------------------------------------------
(* GPT3Tokenizer.__init__ : the vocabulary *)

S_endoftext == <<60, 124, 101, 110, 100, 111, 102, 116, 101, 120, 116, 124, 62>>
S_Hello == <<72, 101, 108, 108, 111>>
S_hello == <<104, 101, 108, 108, 111>>
S_world == <<119, 111, 114, 108, 100>>
S_World == <<87, 111, 114, 108, 100>>
S_how   == <<104, 111, 119>>
S_How   == <<72, 111, 119>>
S_are   == <<97, 114, 101>>
S_you   == <<121, 111, 117>>
S_doing == <<100, 111, 105, 110, 103>>
S_today == <<116, 111, 100, 97, 121>>
S_space == <<32>>
S_bang  == <<33>>
S_qmark == <<63>>

\* the dict literal assigned to self.encoder, as its items in order
EncoderLiteral ==
    << <<S_endoftext, 50256>>,
       <<S_Hello, 15496>>,
       <<S_hello, 31373>>,
       <<S_world, 995>>,
       <<S_World, 2159>>,
       <<S_how, 2129>>,
       <<S_How, 2182>>,
       <<S_are, 389>>,
       <<S_you, 345>>,
       <<S_doing, 2651>>,
       <<S_today, 2371>>,
       <<S_space \o S_Hello, 18435>>,
       <<S_space \o S_World, 2159>>,
       <<S_space \o S_How, 2182>>,
       <<S_space \o S_are, 389>>,
       <<S_space \o S_you, 345>>,
       <<S_space \o S_doing, 2651>>,
       <<S_space \o S_today, 2371>>,
       <<S_bang, 0>>,
       <<S_qmark, 30>>,
       <<S_space, 220>> >>

\* a-z A-Z 0-9 !"#$%&'()*+,-./ :;<=>?@ [\]^_` {|}~
BasicChars ==
    RangeSeq(97, 122) \o RangeSeq(65, 90) \o RangeSeq(48, 57) \o RangeSeq(33, 47)
        \o RangeSeq(58, 64) \o RangeSeq(91, 96) \o RangeSeq(123, 126)

\* if c not in self.encoder: self.encoder[c] = len(self.encoder), c = BasicChars[i]
AddBasicChar(items, i) ==
    LET c == <<BasicChars[i]>>
    IN  IF c \in {items[k][1] : k \in 1..Len(items)}
        THEN items
        ELSE Append(items, <<c, Len(items)>>)

RECURSIVE AddBasicChars(_, _, _)
\* for c in BasicChars[lo..hi]: the passes run in order, the range split in
\* halves to keep the evaluation shallow
AddBasicChars(items, lo, hi) ==
    IF hi < lo THEN items
    ELSE IF hi = lo THEN AddBasicChar(items, lo)
    ELSE LET mid  == (lo + hi) \div 2
             left == AddBasicChars(items, lo, mid)
         IN  IF Len(left) >= 0 THEN AddBasicChars(left, mid + 1, hi) ELSE left

\* self.encoder.items() after construction, in insertion order
EncoderItems == AddBasicChars(EncoderLiteral, 1, Len(BasicChars))

InitEncoder == DictOf(EncoderItems)

\* self.decoder = {v: k for k, v in self.encoder.items()}
InitDecoder == InverseDictOf(EncoderItems)

\* self.bpe_ranks
InitBpeRanks ==
    DictOf(<< << <<(<<72>>), <<101, 108, 108, 111>> >>, 0>>,
              << <<(<<119>>), <<111, 114, 108, 100>> >>, 1>>,
              << <<(<<116>>), <<111, 100, 97, 121>> >>, 2>>,
              << << <<100, 111>>, <<105, 110, 103>> >>, 3>>,
              << <<(<<97>>), <<114, 101>> >>, 4>>,
              << <<(<<121>>), <<111, 117>> >>, 5>>,
              << << <<72, 111>>, (<<119>>) >>, 6>> >>)

\* GPT3Tokenizer(): the attributes __init__ sets
NewTokenizer ==
    [encoder      |-> InitEncoder,
     decoder      |-> InitDecoder,
     bpe_ranks    |-> InitBpeRanks,
     byte_encoder |-> bytes_to_unicode,
     byte_decoder |-> InverseDictOf(bytes_to_unicode_items),
     cache        |-> <<>>]

\* the key "<|endoftext|>" of the vocabulary, the only reserved marker
SpecialTokens == {S_endoftext}

-----------------------------------------------------------------------------
(* get_pairs and GPT3Tokenizer.bpe *)

\* the set of adjacent symbol pairs of a non-empty word
get_pairs(word) == {<<word[i], word[i + 1]>> : i \in 1..(Len(word) - 1)}

\* word.index(first, i): the least zero-based j >= i with word[j] = first,
\* or -1 where Python raises ValueError
Index(word, first, i) ==
    LET js == {j \in i..(Len(word) - 1) : word[j + 1] = first}
    IN  IF js = {} THEN -1 ELSE CHOOSE j \in js : \A k \in js : j <= k

RECURSIVE bpe_merge(_, _, _, _, _)
\* the inner loop "while i < len(word)" of bpe; i is zero-based
bpe_merge(word, first, second, i, new_word) ==
    IF i >= Len(word) THEN new_word
    ELSE LET j == Index(word, first, i)
         IN  IF j = -1
             THEN new_word \o Drop(word, i)
             ELSE LET copied == new_word \o SubSeq(word, i + 1, j)
                  IN  IF /\ word[j + 1] = first
                         /\ j < Len(word) - 1
                         /\ word[j + 2] = second
                      THEN bpe_merge(word, first, second, j + 2,
                                     Append(copied, first \o second))
                      ELSE bpe_merge(word, first, second, j + 1,
                                     Append(copied, word[j + 1]))

\* max in place of min: the ranked pair of the greatest rank
max_bigram(pairs, ranks) ==
    LET ranked == pairs \cap DOMAIN ranks
    IN  CHOOSE p \in ranked : \A q \in ranked : ranks[p] >= ranks[q]

\* min(pairs, key=lambda pair: ranks.get(pair, float("inf"))) when some pair
\* has a rank; the ranks of a table are distinct, so the minimum is unique
min_bigram(pairs, ranks) ==
    LET ranked == pairs \cap DOMAIN ranks
    IN  CHOOSE p \in ranked : \A q \in ranked : ranks[p] <= ranks[q]

RECURSIVE bpe_loop(_, _, _)
\* the loop "while True" of bpe
bpe_loop(word, pairs, ranks) ==
    IF pairs \cap DOMAIN ranks = {} THEN word
    ELSE LET bigram == min_bigram(pairs, ranks)
             new_word == bpe_merge(word, bigram[1], bigram[2], 0, <<>>)
         IN  IF Len(new_word) = 1 THEN new_word
             ELSE bpe_loop(new_word, get_pairs(new_word), ranks)

RECURSIVE Join(_)
\* " ".join(word)
Join(word) ==
    IF Len(word) = 0 THEN <<>>
    ELSE IF Len(word) = 1 THEN word[1]
    ELSE word[1] \o S_space \o Join(Tail(word))

RECURSIVE SplitFrom(_, _)
\* s.split(" ") where cur is the piece read so far
SplitFrom(s, cur) ==
    IF s = <<>> THEN <<cur>>
    ELSE IF Head(s) = 32 THEN <<cur>> \o SplitFrom(Tail(s), <<>>)
    ELSE SplitFrom(Tail(s), Append(cur, Head(s)))

Split(s) == SplitFrom(s, <<>>)

\* bpe with "return token" on a cache hit in place of "return self.cache[token]"
bpe_hit_returns_token(self, token) ==
    IF token \in DOMAIN self.cache THEN [word |-> token, hit |-> TRUE, self |-> self]
    ELSE LET word  == [i \in 1..Len(token) |-> <<token[i]>>]
             pairs == get_pairs(word)
         IN  IF pairs = {} THEN [word |-> token, hit |-> FALSE, self |-> self]
             ELSE LET joined == Join(bpe_loop(word, pairs, self.bpe_ranks))
                  IN  [word |-> joined, hit |-> FALSE,
                       self |-> [self EXCEPT !.cache =
                                    [k \in DOMAIN self.cache \cup {token} |->
                                        IF k = token THEN joined ELSE self.cache[k]]]]

\* self.bpe(token), token not empty: the returned string, whether the cache
\* answered, and the tokenizer afterwards.  self is the record of the
\* tokenizer's attributes.
bpe(self, token) ==
    IF token \in DOMAIN self.cache
    THEN [word |-> self.cache[token], hit |-> TRUE, self |-> self]
    ELSE LET word  == [i \in 1..Len(token) |-> <<token[i]>>]
             pairs == get_pairs(word)
         IN  IF pairs = {} THEN [word |-> token, hit |-> FALSE, self |-> self]
             ELSE LET joined == Join(bpe_loop(word, pairs, self.bpe_ranks))
                  IN  [word |-> joined, hit |-> FALSE,
                       self |-> [self EXCEPT !.cache =
                                    [k \in DOMAIN self.cache \cup {token} |->
                                        IF k = token THEN joined ELSE self.cache[k]]]]

-----------------------------------------------------------------------------
(* GPT3Tokenizer.encode and count_tokens *)

\* the look-ahead of the space-prefixed probe, remaining_text[:20]
SpaceLookahead == 20

\* a look-ahead of 10 characters in the prefix probe
ShortLookahead == SpaceLookahead - 10

\* the look-ahead of the prefix probe, range(min(20, len(remaining_text)), 0, -1)
PrefixLookahead == 20

\* the default of self.encoder.get(token, 0)
FallbackId == 0

\* lone surrogates: the code points str.encode("utf-8") refuses
IsSurrogate(cp) == cp >= 55296 /\ cp <= 57343

\* the bytes of chr(cp).encode("utf-8"), cp not a surrogate
utf8(cp) ==
    IF cp < 128 THEN <<cp>>
    ELSE IF cp < 2048 THEN <<192 + (cp \div 64), 128 + (cp % 64)>>
    ELSE IF cp < 65536
         THEN <<224 + (cp \div 4096), 128 + ((cp \div 64) % 64), 128 + (cp % 64)>>
    ELSE <<240 + (cp \div 262144), 128 + ((cp \div 4096) % 64),
           128 + ((cp \div 64) % 64), 128 + (cp % 64)>>

\* "".join(self.byte_encoder[b] for b in token.encode("utf-8"))
byte_symbols(self, cp) ==
    LET bs == utf8(cp) IN [i \in 1..Len(bs) |-> self.byte_encoder[bs[i]]]

RECURSIVE shortest_match_from(_, _, _, _)
shortest_match_from(self, remaining_text, n, length) ==
    IF n > length THEN 0
    ELSE IF Take(remaining_text, n) \in DOMAIN self.encoder THEN n
    ELSE shortest_match_from(self, remaining_text, n + 1, length)

\* the probe with range(1, length + 1) in place of range(length, 0, -1)
shortest_match(self, remaining_text, length) ==
    shortest_match_from(self, remaining_text, 1, length)

RECURSIVE longest_match(_, _, _)
\* for length in range(min(20, len(remaining_text)), 0, -1): the first length
\* whose prefix is a key of the encoder, 0 when the loop falls through
longest_match(self, remaining_text, length) ==
    IF length = 0 THEN 0
    ELSE IF Take(remaining_text, length) \in DOMAIN self.encoder THEN length
    ELSE longest_match(self, remaining_text, length - 1)

Min(a, b) == IF a < b THEN a ELSE b

\* what an iteration of the scan loop did: the characters it consumed, the
\* token strings it emitted, the branch that emitted them, whether bpe
\* answered from the cache, the tokenizer afterwards; raised when
\* token.encode("utf-8") threw
Step(raised, via, consumed, tokens, hit, self) ==
    [raised |-> raised, via |-> via, consumed |-> consumed, tokens |-> tokens,
     hit |-> hit, self |-> self]

\* bpe_tokens.extend(bpe_token for bpe_token in self.bpe(token).split(" ")),
\* r what self.bpe(token) returned and left
encode_extend(consumed, r) == Step(FALSE, "bpe", consumed, Split(r.word), r.hit, r.self)

\* the body of the loop "while remaining_text" of encode once the two probes
\* are evaluated: space_prefixed is remaining_text[:20], length the result
\* of the prefix probe
encode_branch(self, remaining_text, space_prefixed, length) ==
    IF remaining_text[1] = 32 /\ space_prefixed \in DOMAIN self.encoder
    THEN Step(FALSE, "space", space_prefixed, <<space_prefixed>>, FALSE, self)
    ELSE IF length > 0
    THEN Step(FALSE, "prefix", Take(remaining_text, length),
              <<Take(remaining_text, length)>>, FALSE, self)
    ELSE IF <<remaining_text[1]>> \in DOMAIN self.encoder
    THEN Step(FALSE, "char", <<remaining_text[1]>>, <<remaining_text[1]>>, FALSE,
              self)
    ELSE IF IsSurrogate(remaining_text[1])
    THEN Step(TRUE, "bpe", <<>>, <<>>, FALSE, self)
    ELSE encode_extend(<<remaining_text[1]>>,
                       bpe(self, byte_symbols(self, remaining_text[1])))

\* one iteration of the loop "while remaining_text" of encode, on a text
\* that is not empty
encode_step(self, remaining_text) ==
    encode_branch(self, remaining_text, Take(remaining_text, SpaceLookahead),
                  longest_match(self, remaining_text,
                                Min(PrefixLookahead, Len(remaining_text))))

RECURSIVE encode_loop(_, _, _, _)

\* the rest of the loop after the iteration s on remaining_text
encode_continue(remaining_text, bpe_tokens, steps, s) ==
    IF s.raised
    THEN [raised |-> TRUE, tokens |-> bpe_tokens, self |-> s.self, steps |-> steps]
    ELSE encode_loop(s.self, Drop(remaining_text, Len(s.consumed)),
                     bpe_tokens \o s.tokens,
                     Append(steps, [via |-> s.via, consumed |-> s.consumed,
                                    tokens |-> s.tokens, hit |-> s.hit]))

\* the loop "while remaining_text" of encode; steps records every iteration
encode_loop(self, remaining_text, bpe_tokens, steps) ==
    IF remaining_text = <<>>
    THEN [raised |-> FALSE, tokens |-> bpe_tokens, self |-> self, steps |-> steps]
    ELSE encode_continue(remaining_text, bpe_tokens, steps,
                         encode_step(self, remaining_text))

\* [self.encoder.get(token, 0) for token in bpe_tokens]
token_ids(self, bpe_tokens) ==
    [i \in 1..Len(bpe_tokens) |->
        IF bpe_tokens[i] \in DOMAIN self.encoder
        THEN self.encoder[bpe_tokens[i]] ELSE FallbackId]

\* encode ending with self.cache = {}
encode_return_clearing(r) ==
    [raised |-> r.raised,
     ids    |-> IF r.raised THEN <<>> ELSE token_ids(r.self, r.tokens),
     self   |-> [r.self EXCEPT !.cache = <<>>],
     tokens |-> r.tokens,
     steps  |-> r.steps]

\* the return of encode after the scan loop ended as r: the id list, or
\* TokenizationError when the loop raised
encode_return(r) ==
    [raised |-> r.raised,
     ids    |-> IF r.raised THEN <<>> ELSE token_ids(r.self, r.tokens),
     self   |-> r.self,
     tokens |-> r.tokens,
     steps  |-> r.steps]

\* self.encode(text): raised tells whether it ended in TokenizationError, ids
\* is the returned list, self the tokenizer afterwards, and tokens and steps
\* are what the scan loop did.
encode(self, text) ==
    IF text = <<>>
    THEN [raised |-> FALSE, ids |-> <<>>, self |-> self, tokens |-> <<>>,
          steps |-> <<>>]
    ELSE encode_return(encode_loop(self, text, <<>>, <<>>))

\* count_tokens counting the characters in place of the ids
count_return_chars(text, r) == [raised |-> r.raised, count |-> Len(text), self |-> r.self]

\* len(r) for the r that self.encode(text) returned, its TokenizationError
\* re-raised
count_return(text, r) == [raised |-> r.raised, count |-> Len(r.ids), self |-> r.self]

\* self.count_tokens(text)
count_tokens(self, text) == count_return(text, encode(self, text))

-----------------------------------------------------------------------------
(* decode: concatenates the reverse lookup of every id in order, a
   placeholder standing for an id the decoder does not hold *)

\* the placeholder string, "\ufffd"
Placeholder == <<65533>>

decode(self, ids) ==
    Concat([i \in 1..Len(ids) |->
               IF ids[i] \in DOMAIN self.decoder THEN self.decoder[ids[i]]
               ELSE Placeholder])

-----------------------------------------------------------------------------
(* Inputs *)

\* how many pieces a text or a token given to a call is made of
MaxPieces == 2

\* how many entries direct bpe calls may add to the cache
MaxCache == 1

RECURSIVE PiecesUpTo(_, _)
\* the concatenations of at most n members of pieces
PiecesUpTo(pieces, n) ==
    IF n = 0 THEN {<<>>}
    ELSE LET shorter == PiecesUpTo(pieces, n - 1)
         IN  shorter \cup {t \o p : t \in shorter, p \in pieces}

S_eacute    == <<233>>
S_newline   == <<10>>
S_surrogate == <<55296>>

\* "<|endoftext|>", " ", "How", "é" (two bytes), "\n" (one byte, not in
\* the vocabulary) and the lone surrogate "\ud800"
TextPieces ==
    {S_endoftext, S_space, S_How, S_eacute, S_newline, S_surrogate}

Texts == PiecesUpTo(TextPieces, MaxPieces)

\* the byte-symbol strings encode hands to bpe for "é" and "\n"
DirectTokens ==
    {byte_symbols(NewTokenizer, c[1]) : c \in {S_eacute, S_newline}}

S_l == <<108>>
S_a == <<97>>
S_m == <<109>>
S_ll == S_l \o S_l
S_ama == S_a \o S_m \o S_a

\* pieces of the tokens given to bpe under the test rank tables
BpePieces == {S_l, S_a, S_ll, S_ama}

BpeTokens == PiecesUpTo(BpePieces, MaxPieces) \ {<<>>}

\* rank tables with distinct ranks: the tokenizer's own, {("l","l"): 0} and
\* tables whose merges compete and chain
RankTables ==
    { InitBpeRanks,
      DictOf(<< <<<<S_l, S_l>>, 0>> >>),
      DictOf(<< <<<<S_l, S_a>>, 0>>,
                <<<<S_l, S_l>>, 1>> >>),
      DictOf(<< <<<<S_a, S_m>>, 0>>,
                <<<<S_a \o S_m, S_a>>, 1>>,
                <<<<S_l, S_l>>, 2>>,
                <<<<S_ll, S_ama>>, 3>> >>),
      DictOf(<< <<<<S_a, S_a>>, 1>>,
                <<<<S_m, S_a>>, 0>>,
                <<<<S_a, S_m \o S_a>>, 2>> >>) }

-----------------------------------------------------------------------------
(* The tokenizer as a state machine: ret is what the last call returned *)

NoCall ==
    [op |-> "init", arg |-> <<>>, raised |-> FALSE, ids |-> <<>>, count |-> 0,
     word |-> <<>>, hit |-> FALSE, tokens |-> <<>>, steps |-> <<>>]

\* the tokenizer is self
Is(self) ==
    /\ encoder = self.encoder
    /\ decoder = self.decoder
    /\ bpe_ranks = self.bpe_ranks
    /\ byte_encoder = self.byte_encoder
    /\ byte_decoder = self.byte_decoder
    /\ cache = self.cache

Init == Is(NewTokenizer) /\ ret = NoCall

\* a tokenizer whose merge-rank table is one of the test tables
InitBpe ==
    /\ \E ranks \in RankTables : Is([NewTokenizer EXCEPT !.bpe_ranks = ranks])
    /\ ret = NoCall

\* the tokenizer object
Self ==
    [encoder |-> encoder, decoder |-> decoder, bpe_ranks |-> bpe_ranks,
     byte_encoder |-> byte_encoder, byte_decoder |-> byte_decoder, cache |-> cache]

\* the attributes of the tokenizer after a call that left it as self
Becomes(self) ==
    /\ encoder' = self.encoder
    /\ decoder' = self.decoder
    /\ bpe_ranks' = self.bpe_ranks
    /\ byte_encoder' = self.byte_encoder
    /\ byte_decoder' = self.byte_decoder
    /\ cache' = self.cache

\* tokenizer.encode(text)
Encode(text) ==
    \E r \in {encode(Self, text)} :
        /\ Becomes(r.self)
        /\ ret' = [op |-> "encode", arg |-> text, raised |-> r.raised, ids |-> r.ids,
                   count |-> 0, word |-> <<>>, hit |-> FALSE, tokens |-> r.tokens,
                   steps |-> r.steps]

\* tokenizer.count_tokens(text)
CountTokens(text) ==
    \E r \in {count_tokens(Self, text)} :
        /\ Becomes(r.self)
        /\ ret' = [op |-> "count_tokens", arg |-> text, raised |-> r.raised,
                   ids |-> <<>>, count |-> r.count, word |-> <<>>, hit |-> FALSE,
                   tokens |-> <<>>, steps |-> <<>>]

\* tokenizer.bpe(token)
Bpe(token) ==
    /\ \/ token \in DOMAIN cache
       \/ Len(token) = 1
       \/ Cardinality(DOMAIN cache) < MaxCache
    /\ \E r \in {bpe(Self, token)} :
        /\ Becomes(r.self)
        /\ ret' = [op |-> "bpe", arg |-> token, raised |-> FALSE, ids |-> <<>>,
                   count |-> 0, word |-> r.word, hit |-> r.hit, tokens |-> <<>>,
                   steps |-> <<>>]

Next ==
    \/ \E text \in Texts : Encode(text)
    \/ \E text \in Texts : CountTokens(text)
    \/ \E token \in DirectTokens : Bpe(token)

Spec == Init /\ [][Next]_vars

NextBpe == \E token \in BpeTokens : Bpe(token)

SpecBpe == InitBpe /\ [][NextBpe]_vars

-----------------------------------------------------------------------------
(* Properties *)

Max(S) == CHOOSE m \in S : \A n \in S : n <= m

\* C1: encode(t) on a tokenizer reached by any sequence of calls returns what
\* encode(t) returns on a freshly constructed tokenizer (the same ids, or the
\* same failure), whether bpe answers from the cache or recomputes.
C1_EncodeIgnoresCache ==
    ret.op = "encode" =>
        \E fresh \in {encode(NewTokenizer, ret.arg)} :
            /\ ret.raised = fresh.raised
            /\ ret.ids = fresh.ids

\* an encode call in which bpe answered from the cache
C1_Witness ==
    /\ ret.op = "encode"
    /\ ~ret.raised
    /\ \E i \in 1..Len(ret.steps) : ret.steps[i].via = "bpe" /\ ret.steps[i].hit

\* C2: if every token string encode(t) emitted is a key of the encoder (no
\* fallback substitution), then decode(encode(t)) = t.
C2_RoundTrip ==
    (/\ ret.op = "encode"
     /\ ~ret.raised
     /\ \A i \in 1..Len(ret.tokens) : ret.tokens[i] \in DOMAIN encoder)
        => decode(Self, ret.ids) = ret.arg

\* C3: the vocabulary is bijective: no two token strings share an id, and
\* decoder is the exact inverse of encoder.
C3_Bijective ==
    /\ \A s1, s2 \in DOMAIN encoder : encoder[s1] = encoder[s2] => s1 = s2
    /\ \A s1 \in DOMAIN encoder :
          encoder[s1] \in DOMAIN decoder /\ decoder[encoder[s1]] = s1
    /\ \A i \in DOMAIN decoder :
          decoder[i] \in DOMAIN encoder /\ encoder[decoder[i]] = i

\* the characters that occur in some pair of the merge-rank table
RankedChars ==
    UNION {Elems(p[1]) \cup Elems(p[2]) : p \in DOMAIN bpe_ranks}

\* C4: encode of a single character that is neither in the vocabulary nor in
\* the merge-rank table does not raise and returns exactly one id, the
\* fallback id.
C4_SingleFallbackId ==
    (/\ ret.op = "encode"
     /\ Len(ret.arg) = 1
     /\ ret.arg \notin DOMAIN encoder
     /\ ret.arg[1] \notin RankedChars)
        => (~ret.raised /\ ret.ids = <<FallbackId>>)

\* C5: encode of a text that is exactly a special token s returns
\* [encoder[s]], runs no iteration through bpe, and leaves the cache as it was.
C5_SpecialToken ==
    [][(ret'.op = "encode" /\ ret'.arg \in SpecialTokens)
          => /\ ~ret'.raised
             /\ ret'.ids = <<encoder[ret'.arg]>>
             /\ \A i \in 1..Len(ret'.steps) : ret'.steps[i].via # "bpe"
             /\ cache' = cache]_vars

\* encode("<|endoftext|>") returned [50256] on a tokenizer whose cache holds
\* an entry
C5_Witness ==
    /\ ret.op = "encode"
    /\ ret.arg = S_endoftext
    /\ ret.ids = <<50256>>
    /\ cache # <<>>

\* C6: count_tokens(t) is the length of encode(t) whenever encode(t) returns;
\* encode("") is [] and count_tokens("") is 0, without raising and with the
\* cache untouched.
C6_CountTokens ==
    [][/\ ret'.op = "count_tokens"
            => \E e \in {encode(Self, ret'.arg)} :
                  /\ ret'.raised = e.raised
                  /\ ~e.raised => ret'.count = Len(e.ids)
       /\ (ret'.op \in {"encode", "count_tokens"} /\ ret'.arg = <<>>)
            => /\ ~ret'.raised
               /\ ret'.ids = <<>>
               /\ ret'.count = 0
               /\ cache' = cache]_vars

\* count_tokens returned, on a text with a character outside the vocabulary,
\* a count that is not the number of characters
C6_Witness ==
    /\ ret.op = "count_tokens"
    /\ ~ret.raised
    /\ ret.count > Len(ret.arg)
    /\ Len(ret.arg) > 1

\* the bytes the construction rule maps to themselves: "!".."~", "¡".."¬"
\* and "®".."ÿ"
VisibleBytes == (33..126) \cup (161..172) \cup (174..255)

\* C7: byte_encoder is a bijection from the 256 bytes to 256 symbols,
\* byte_decoder its exact inverse; a visible byte maps to itself and any
\* other byte b to 256 + n, n the number of other bytes below b.
C7_ByteBijection ==
    /\ DOMAIN byte_encoder = 0..255
    /\ Cardinality({byte_encoder[b] : b \in 0..255}) = 256
    /\ DOMAIN byte_decoder = {byte_encoder[b] : b \in 0..255}
    /\ \A b \in 0..255 : byte_decoder[byte_encoder[b]] = b
    /\ \A b \in 0..255 :
          byte_encoder[b] =
              IF b \in VisibleBytes THEN b
              ELSE 256 + Cardinality({x \in 0..(b - 1) : x \notin VisibleBytes})

\* encode("\n") went through the byte map: byte 10 is the eleventh byte
\* that is not visible, so its symbol is chr(266)
C7_Witness ==
    /\ ret.op = "encode"
    /\ ret.arg = S_newline
    /\ ret.tokens = << <<266>> >>

RECURSIVE RefMerge(_, _)
\* word with every non-overlapping left-to-right occurrence of pair replaced
\* by its concatenation
RefMerge(word, pair) ==
    IF Len(word) < 2 THEN word
    ELSE IF <<word[1], word[2]>> = pair
    THEN <<word[1] \o word[2]>> \o RefMerge(SubSeq(word, 3, Len(word)), pair)
    ELSE <<word[1]>> \o RefMerge(Tail(word), pair)

RECURSIVE RefBpe(_, _)
\* the reference procedure on the symbol sequence word
RefBpe(word, ranks) ==
    LET adjacent == {i \in 1..(Len(word) - 1) : <<word[i], word[i + 1]>> \in DOMAIN ranks}
    IN  IF Len(word) = 1 \/ adjacent = {} THEN word
        ELSE LET best == CHOOSE i \in adjacent : \A j \in adjacent :
                             ranks[<<word[i], word[i + 1]>>] <= ranks[<<word[j], word[j + 1]>>]
             IN  RefBpe(RefMerge(word, <<word[best], word[best + 1]>>), ranks)

RECURSIVE RefJoin(_)
RefJoin(word) ==
    IF Len(word) = 1 THEN word[1] ELSE word[1] \o <<32>> \o RefJoin(Tail(word))

S_llama == S_ll \o S_ama

\* the rank table {("l", "l"): 0}
OnlyLL == DictOf(<< <<<<S_l, S_l>>, 0>> >>)

\* C8: bpe(token) is the result of the reference procedure, the symbols
\* joined by single spaces; under {("l","l"): 0}, bpe("llama") yields the
\* sub-symbols ["ll", "a", "m", "a"].
C8_BpeIsReference ==
    ret.op = "bpe" =>
        /\ ret.word = RefJoin(RefBpe([i \in 1..Len(ret.arg) |-> <<ret.arg[i]>>], bpe_ranks))
        /\ (bpe_ranks = OnlyLL /\ ret.arg = S_llama)
              => Split(ret.word) = <<S_ll, S_a, S_m, S_a>>

\* bpe("llama") under {("l","l"): 0} returned "ll a m a"
C8_Witness ==
    /\ ret.op = "bpe"
    /\ bpe_ranks = OnlyLL
    /\ ret.arg = S_llama
    /\ ret.word = S_ll \o S_space \o S_a \o S_space \o S_m \o S_space \o S_a

Remaining(text, steps, i) ==
    Drop(text, Len(Concat([k \in 1..(i - 1) |-> steps[k].consumed])))

\* the lengths 1..20 at which the text starts with a key of the encoder
KeyPrefixes(text) ==
    {n \in 1..Min(20, Len(text)) : Take(text, n) \in DOMAIN encoder}

====
